---- MODULE Spec2Model ----
(***************************************************************************)
(* The generic table-access layer of gossip-lib (storage/table.rs): the    *)
(* provided methods of trait Table, run against a transactional ordered    *)
(* byte store.  A state holds the committed table, the caller's write      *)
(* transaction (when one is open) and a description of the last call.      *)
(***************************************************************************)
EXTENDS Integers, Sequences, FiniteSets, TLC

VARIABLES
    committed,  \* the table as every transaction opened from now on sees it
    wtxn,       \* the caller's write transaction: [open, base, view]
    newable,    \* Table::newable() of the table type under study
    clock,      \* what Unixtime::now() returns
    last,       \* the last call: its arguments, its result, what it did
    rtxn,       \* the caller's read transaction: [open, view]
    thr         \* the threads that call without a transaction, step by step

vars == <<committed, wtxn, newable, clock, last, rtxn, thr>>

\* ------------------------------------------------------------- bounds
MaxKey == 2      \* keys are 1..MaxKey
MaxTime == 1     \* the clock runs over 0..MaxTime
NThreads == 2    \* threads are 1..NThreads

Keys == 1..MaxKey
Threads == 1..NThreads
Titles == {"", "x"}

\* ------------------------------------------------------------- records
\* The example record type: a title, a derived length field and the time of
\* the last edit; dtag is the field the key is taken from.
NoRecord == [dtag |-> 0, title |-> "", last_edit_time |-> 0, event_public_len |-> 0]

\* The length of a title
TitleLen(title) == IF title = "" THEN 0 ELSE 1

\* Record::key
key(record) == record.dtag

\* ByteRep::to_bytes of a key: one byte
KeyToBytes(k) == <<k>>

\* Record::stabilize: recompute the derived field from the content
stabilize(record) == [record EXCEPT !.event_public_len = TitleLen(record.title)]

\* Record::new: the default record of a key (PersonListMetadata1::default)
new(k) ==
    [dtag |-> k, title |-> "", last_edit_time |-> clock, event_public_len |-> 0]

\* Record::to_bytes: the fields in declaration order
to_bytes(record) ==
    <<record.dtag, record.title, record.last_edit_time, record.event_public_len>>

\* Record::from_bytes: fails on a byte string that is not four fields long
from_bytes(valbytes) ==
    IF Len(valbytes) = 4
    THEN [ok |-> TRUE,
          rec |-> [dtag |-> valbytes[1], title |-> valbytes[2],
                   last_edit_time |-> valbytes[3], event_public_len |-> valbytes[4]]]
    ELSE [ok |-> FALSE, rec |-> NoRecord]

\* A value written under another schema: from_bytes rejects it.
Malformed == <<0>>

\* ------------------------------------------------------------- the store
\* A table (or a transaction's view of it) is a function from the key bytes
\* present to their value bytes.
EmptyTable == [kb \in {} |-> <<>>]

\* Database::get: Option<&[u8]> as a sequence of length 0 or 1
get(view, keybytes) ==
    IF keybytes \in DOMAIN view THEN <<view[keybytes]>> ELSE <<>>

\* Database::put: insert or replace
put(view, keybytes, valbytes) ==
    [kb \in (DOMAIN view) \cup {keybytes} |->
        IF kb = keybytes THEN valbytes ELSE view[kb]]

\* Database::len
len(view) == Cardinality(DOMAIN view)

\* Database::iter / iter_mut: the keys present, in ascending byte order
RECURSIVE SortedKeys(_)
SortedKeys(kbs) ==
    IF kbs = {} THEN <<>>
    ELSE LET lo == CHOOSE a \in kbs : \A b \in kbs : a[1] <= b[1]
         IN <<lo>> \o SortedKeys(kbs \ {lo})

iter(view) == SortedKeys(DOMAIN view)

\* ------------------------------------------------------------- closures
\* The caller's predicate F and mutation M, drawn from small sets.
Preds == {"all", "none", "untitled"}
Muts == {"retitle"}

Accepts(p, record) ==
    CASE p = "all" -> TRUE
      [] p = "none" -> FALSE
      [] OTHER -> record.title = ""

\* "retitle" changes the content and leaves the derived field as it was, so
\* the record it leaves is not stabilized.  "rekey" changes the field the key
\* is taken from.
Mutate(m, record) ==
    CASE m = "retitle" ->
            [record EXCEPT !.title = IF record.title = "" THEN "x" ELSE ""]
      [] m = "rekey" ->
            [record EXCEPT !.dtag = (record.dtag % MaxKey) + 1]
      [] OTHER -> record

\* What an inner closure hands back: the view it leaves in the transaction,
\* its Result, and what it did on the way.
Outcome(view, res, flag, out, calls, visited) ==
    [view |-> view, res |-> res, flag |-> flag, out |-> out,
     calls |-> calls, visited |-> visited]

Ok == "Ok"
RecordIsNotNewable == "RecordIsNotNewable"
DecodingFailure == "DecodingFailure"
StoreFailure == "StoreFailure"
Errors == {RecordIsNotNewable, DecodingFailure, StoreFailure}

\* ------------------------------------------------------------- inner closures
\* failAt = n makes the n-th put of the call fail in the engine (0: none does).

\* write_record_f storing the record as the caller handed it over.
write_record_unstabilized(view, record, failAt) ==
    IF failAt = 1
    THEN Outcome(view, StoreFailure, FALSE, <<>>, 0, <<>>)
    ELSE Outcome(put(view, KeyToBytes(key(record)), to_bytes(record)), Ok, FALSE,
                 <<>>, 0, <<>>)

\* write_record_f keeping the entry already stored under the key.
write_record_keeps_present(view, record, failAt) ==
    LET stable == stabilize(record)
        keybytes == KeyToBytes(key(stable))
    IN IF failAt = 1
       THEN Outcome(view, StoreFailure, FALSE, <<>>, 0, <<>>)
       ELSE IF get(view, keybytes) # <<>>
       THEN Outcome(view, Ok, FALSE, <<>>, 0, <<>>)
       ELSE Outcome(put(view, keybytes, to_bytes(stable)), Ok, FALSE, <<>>, 0, <<>>)

\* write_record: the closure f
write_record_f(view, record, failAt) ==
    LET stable == stabilize(record)
        keybytes == KeyToBytes(key(stable))
        valbytes == to_bytes(stable)
    IN IF failAt = 1
       THEN Outcome(view, StoreFailure, FALSE, <<>>, 0, <<>>)
       ELSE Outcome(put(view, keybytes, valbytes), Ok, FALSE, <<>>, 0, <<>>)

\* create_record_if_missing_f without the `is_none` test: it always puts.
create_record_if_missing_overwrites(view, k, failAt) ==
    LET keybytes == KeyToBytes(k)
        record == stabilize(new(k))
    IN IF failAt = 1
       THEN Outcome(view, StoreFailure, FALSE, <<>>, 0, <<>>)
       ELSE Outcome(put(view, keybytes, to_bytes(record)), Ok, FALSE, <<>>, 0, <<>>)

\* create_record_if_missing: the closure f
create_record_if_missing_f(view, k, failAt) ==
    LET keybytes == KeyToBytes(k)
        record == stabilize(new(k))
    IN IF get(view, keybytes) = <<>>
       THEN IF failAt = 1
            THEN Outcome(view, StoreFailure, FALSE, <<>>, 0, <<>>)
            ELSE Outcome(put(view, keybytes, to_bytes(record)), Ok, FALSE, <<>>, 0, <<>>)
       ELSE Outcome(view, Ok, FALSE, <<>>, 0, <<>>)

\* read_or_create_record_f building and storing the default record also when
\* the key is present.
read_or_create_record_recreates(view, k, failAt) ==
    LET keybytes == KeyToBytes(k)
        record == stabilize(new(k))
    IN IF failAt = 1
       THEN Outcome(view, StoreFailure, FALSE, <<>>, 0, <<>>)
       ELSE Outcome(put(view, keybytes, to_bytes(record)), Ok, FALSE,
                    <<record>>, 0, <<>>)

\* read_or_create_record: the closure f
read_or_create_record_f(view, k, failAt) ==
    LET keybytes == KeyToBytes(k)
        valbytes == get(view, keybytes)
        record == stabilize(new(k))
    IN IF valbytes = <<>>
       THEN IF failAt = 1
            THEN Outcome(view, StoreFailure, FALSE, <<>>, 0, <<>>)
            ELSE Outcome(put(view, keybytes, to_bytes(record)), Ok, FALSE,
                         <<record>>, 0, <<>>)
       ELSE LET got == from_bytes(valbytes[1])
            IN IF got.ok
               THEN Outcome(view, Ok, FALSE, <<got.rec>>, 0, <<>>)
               ELSE Outcome(view, DecodingFailure, FALSE, <<>>, 0, <<>>)

\* modify_if_exists_f falling back to a default record when the key is absent.
modify_if_exists_fabricates(view, k, m, failAt) ==
    LET keybytes == KeyToBytes(k)
        valbytes == get(view, keybytes)
        got == IF valbytes = <<>>
               THEN [ok |-> TRUE, rec |-> new(k)]
               ELSE from_bytes(valbytes[1])
        record == stabilize(Mutate(m, got.rec))
    IN IF ~got.ok
       THEN Outcome(view, DecodingFailure, FALSE, <<>>, 0, <<>>)
       ELSE IF failAt = 1
       THEN Outcome(view, StoreFailure, FALSE, <<>>, 1, <<>>)
       ELSE Outcome(put(view, keybytes, to_bytes(record)), Ok, valbytes # <<>>,
                    <<>>, 1, <<>>)

\* modify_if_exists: the closure f
modify_if_exists_f(view, k, m, failAt) ==
    LET keybytes == KeyToBytes(k)
        valbytes == get(view, keybytes)
    IN IF valbytes = <<>>
       THEN Outcome(view, Ok, FALSE, <<>>, 0, <<>>)
       ELSE LET got == from_bytes(valbytes[1])
                record == stabilize(Mutate(m, got.rec))
            IN IF ~got.ok
               THEN Outcome(view, DecodingFailure, FALSE, <<>>, 0, <<>>)
               ELSE IF failAt = 1
               THEN Outcome(view, StoreFailure, FALSE, <<>>, 1, <<>>)
               ELSE Outcome(put(view, keybytes, to_bytes(record)), Ok, TRUE,
                            <<>>, 1, <<>>)

\* modify_f with the mutation skipped for a record it has just constructed.
modify_f_skips_new(view, k, m, failAt) ==
    LET keybytes == KeyToBytes(k)
        valbytes == get(view, keybytes)
        got == IF valbytes = <<>>
               THEN [ok |-> TRUE, rec |-> new(k)]
               ELSE from_bytes(valbytes[1])
        record == IF valbytes = <<>>
                  THEN stabilize(got.rec)
                  ELSE stabilize(Mutate(m, got.rec))
    IN IF ~got.ok
       THEN Outcome(view, DecodingFailure, FALSE, <<>>, 0, <<>>)
       ELSE IF failAt = 1
       THEN Outcome(view, StoreFailure, FALSE, <<>>, 1, <<>>)
       ELSE Outcome(put(view, keybytes, to_bytes(record)), Ok, FALSE, <<>>, 1, <<>>)

\* modify: the closure f
modify_f(view, k, m, failAt) ==
    LET keybytes == KeyToBytes(k)
        valbytes == get(view, keybytes)
        got == IF valbytes = <<>>
               THEN [ok |-> TRUE, rec |-> new(k)]
               ELSE from_bytes(valbytes[1])
        record == stabilize(Mutate(m, got.rec))
    IN IF ~got.ok
       THEN Outcome(view, DecodingFailure, FALSE, <<>>, 0, <<>>)
       ELSE IF failAt = 1
       THEN Outcome(view, StoreFailure, FALSE, <<>>, 1, <<>>)
       ELSE Outcome(put(view, keybytes, to_bytes(record)), Ok, FALSE, <<>>, 1, <<>>)

\* filter_modify_loop with the rewrite done whatever the predicate says.
RECURSIVE filter_modify_loop_rewrites_all(_, _, _, _, _, _, _, _)
filter_modify_loop_rewrites_all(view, todo, p, m, failAt, puts, calls, visited) ==
    IF todo = <<>>
    THEN Outcome(view, Ok, FALSE, <<>>, calls, visited)
    ELSE LET keybytes == Head(todo)
             got == from_bytes(view[keybytes])
             record == stabilize(Mutate(m, got.rec))
             seen == Append(visited, keybytes)
         IN IF ~got.ok
            THEN Outcome(view, DecodingFailure, FALSE, <<>>, calls, seen)
            ELSE IF failAt = puts + 1
            THEN Outcome(view, StoreFailure, FALSE, <<>>, calls + 1, seen)
            ELSE filter_modify_loop_rewrites_all(
                     put(view, keybytes, to_bytes(record)), Tail(todo),
                     p, m, failAt, puts + 1, calls + 1, seen)

\* filter_modify: the closure f, one cursor step per entry of todo.  puts
\* counts the put_current calls made so far.
RECURSIVE filter_modify_loop(_, _, _, _, _, _, _, _)
filter_modify_loop(view, todo, p, m, failAt, puts, calls, visited) ==
    IF todo = <<>>
    THEN Outcome(view, Ok, FALSE, <<>>, calls, visited)
    ELSE LET keybytes == Head(todo)
             got == from_bytes(view[keybytes])
             record == stabilize(Mutate(m, got.rec))
             seen == Append(visited, keybytes)
         IN IF ~got.ok
            THEN Outcome(view, DecodingFailure, FALSE, <<>>, calls, seen)
            ELSE IF ~Accepts(p, got.rec)
            THEN filter_modify_loop(view, Tail(todo), p, m, failAt, puts, calls, seen)
            ELSE IF failAt = puts + 1
            THEN Outcome(view, StoreFailure, FALSE, <<>>, calls + 1, seen)
            ELSE filter_modify_loop(put(view, keybytes, to_bytes(record)), Tail(todo),
                                    p, m, failAt, puts + 1, calls + 1, seen)

filter_modify_f(view, p, m, failAt) ==
    filter_modify_loop(view, iter(view), p, m, failAt, 0, 0, <<>>)

\* has_record_f decoding the value it finds.
has_record_decodes(view, k) ==
    LET valbytes == get(view, KeyToBytes(k))
    IN IF valbytes # <<>> /\ ~from_bytes(valbytes[1]).ok
       THEN Outcome(view, DecodingFailure, FALSE, <<>>, 0, <<>>)
       ELSE Outcome(view, Ok, valbytes # <<>>, <<>>, 0, <<>>)

\* has_record: the closure f.  flag is the boolean returned.
has_record_f(view, k) ==
    Outcome(view, Ok, get(view, KeyToBytes(k)) # <<>>, <<>>, 0, <<>>)

\* read_record: the closure f.  out is the Option returned.
read_record_f(view, k) ==
    LET valbytes == get(view, KeyToBytes(k))
    IN IF valbytes = <<>>
       THEN Outcome(view, Ok, FALSE, <<>>, 0, <<>>)
       ELSE LET got == from_bytes(valbytes[1])
            IN IF got.ok
               THEN Outcome(view, Ok, FALSE, <<got.rec>>, 0, <<>>)
               ELSE Outcome(view, DecodingFailure, FALSE, <<>>, 0, <<>>)

\* filter_records_loop passing over the entries that do not decode.
RECURSIVE filter_records_loop_skips_undecodable(_, _, _, _, _)
filter_records_loop_skips_undecodable(view, todo, p, output, visited) ==
    IF todo = <<>>
    THEN Outcome(view, Ok, FALSE, output, 0, visited)
    ELSE LET got == from_bytes(view[Head(todo)])
             seen == Append(visited, Head(todo))
         IN filter_records_loop_skips_undecodable(
                view, Tail(todo), p,
                IF got.ok /\ Accepts(p, got.rec) THEN Append(output, got.rec)
                                                 ELSE output,
                seen)

\* filter_records: the closure f, one iterator step per entry of todo.
RECURSIVE filter_records_loop(_, _, _, _, _)
filter_records_loop(view, todo, p, output, visited) ==
    IF todo = <<>>
    THEN Outcome(view, Ok, FALSE, output, 0, visited)
    ELSE LET got == from_bytes(view[Head(todo)])
             seen == Append(visited, Head(todo))
         IN IF ~got.ok
            THEN Outcome(view, DecodingFailure, FALSE, <<>>, 0, seen)
            ELSE filter_records_loop(
                     view, Tail(todo), p,
                     IF Accepts(p, got.rec) THEN Append(output, got.rec) ELSE output,
                     seen)

filter_records_f(view, p) == filter_records_loop(view, iter(view), p, <<>>, <<>>)

\* ------------------------------------------------------------- transactions
NoTxn == [open |-> FALSE, base |-> EmptyTable, view |-> EmptyTable]

\* No read transaction is open.
NoRead == [open |-> FALSE, view |-> EmptyTable]

\* A thread that is not inside a call.  snap: the committed table when the
\* thread entered its call; view: its write transaction; seen: what its get
\* returned; out, res, flag: what the call returned.
Idle == [pc |-> "idle", op |-> "", key |-> 0, snap |-> EmptyTable,
         view |-> EmptyTable, seen |-> <<>>, out |-> <<>>, res |-> "",
         flag |-> FALSE]

\* The arguments of a call.  owned: no transaction was supplied (wtxn is None).
Call(op, owned, k, m, p, rec) ==
    [op |-> op, owned |-> owned, key |-> k, m |-> m, p |-> p, rec |-> rec]

\* A call with Some(txn) needs the caller's transaction; a call with None opens
\* its own, which the engine grants when no other write transaction is open.
Available(owned) == IF owned THEN ~wtxn.open ELSE wtxn.open

\* What the transaction the closure runs in sees when the closure starts.
TxnView(owned) == IF owned THEN committed ELSE wtxn.view

Describe(call, o, opened, commits) ==
    [op |-> call.op, owned |-> call.owned, key |-> call.key, m |-> call.m,
     p |-> call.p, rec |-> call.rec,
     present |-> call.key # 0 /\ KeyToBytes(call.key) \in DOMAIN TxnView(call.owned),
     res |-> o.res, flag |-> o.flag, out |-> o.out, calls |-> o.calls,
     visited |-> o.visited, opened |-> opened, commits |-> commits, staged |-> 0]

\* Return with the supplied transaction committed by the call.
ReturnCommitsSupplied(call, o) ==
    /\ committed' = o.view
    /\ wtxn' = IF call.owned THEN wtxn ELSE [wtxn EXCEPT !.view = o.view]
    /\ last' = Describe(call, o, IF call.owned THEN 1 ELSE 0, IF call.owned THEN 1 ELSE 0)
    /\ UNCHANGED <<newable, clock, rtxn, thr>>

\* Return with the owned transaction dropped instead of committed.
ReturnDropsOwned(call, o) ==
    /\ IF call.owned
       THEN /\ UNCHANGED <<committed, wtxn>>
            /\ last' = Describe(call, o, 1, 0)
       ELSE /\ wtxn' = [wtxn EXCEPT !.view = o.view]
            /\ UNCHANGED committed
            /\ last' = Describe(call, o, 0, 0)
    /\ UNCHANGED <<newable, clock, rtxn, thr>>

\* `match wtxn`: with Some(txn) the closure's writes stay in txn; with None the
\* call opens a transaction, runs the closure, commits and hands the closure's
\* result back.
Return(call, o) ==
    /\ IF call.owned
       THEN /\ committed' = o.view
            /\ UNCHANGED wtxn
            /\ last' = Describe(call, o, 1, 1)
       ELSE /\ wtxn' = [wtxn EXCEPT !.view = o.view]
            /\ UNCHANGED committed
            /\ last' = Describe(call, o, 0, 0)
    /\ UNCHANGED <<newable, clock, rtxn, thr>>

\* `if !Self::newable() { return Err(RecordIsNotNewable) }`
Refuse(call) ==
    /\ last' = Describe(call,
                        Outcome(TxnView(call.owned), RecordIsNotNewable, FALSE,
                                <<>>, 0, <<>>),
                        0, 0)
    /\ UNCHANGED <<committed, wtxn, newable, clock, rtxn, thr>>

\* A read with Some(txn) needs the caller's read transaction; a read with None
\* opens its own, which the engine grants at any time.
ReadAvailable(owned) == owned \/ rtxn.open

\* ReadView with the supplied transaction ignored: every read opens its own.
ReadViewIgnoresSupplied(owned) == committed

\* What the read transaction the closure runs in sees: the caller's snapshot,
\* or the committed table when the call opens the transaction itself.
ReadView(owned) == IF owned THEN committed ELSE rtxn.view

\* `match rtxn`: the closure's result is the call's result; a transaction the
\* call opened is dropped on return.  Nothing is written.
ReturnRead(call, o) ==
    /\ last' = [Describe(call, o, IF call.owned THEN 1 ELSE 0, 0)
                EXCEPT !.present = /\ call.key # 0
                                   /\ KeyToBytes(call.key) \in DOMAIN ReadView(call.owned)]
    /\ UNCHANGED <<committed, wtxn, newable, clock, rtxn, thr>>

\* ------------------------------------------------------------- operations
\* write_record putting into the committed table as well as into the
\* supplied transaction.
write_record_writes_through(record, owned, failAt) ==
    /\ Available(owned)
    /\ LET o == write_record_f(TxnView(owned), record, failAt)
           call == Call("write_record", owned, key(stabilize(record)), "", "", <<record>>)
       IN /\ committed' = IF owned \/ o.res # Ok THEN o.view
                          ELSE put(committed, KeyToBytes(call.key),
                                   to_bytes(stabilize(record)))
          /\ wtxn' = IF owned THEN wtxn ELSE [wtxn EXCEPT !.view = o.view]
          /\ last' = Describe(call, o, IF owned THEN 1 ELSE 0, IF owned THEN 1 ELSE 0)
          /\ UNCHANGED <<newable, clock, rtxn, thr>>

write_record(record, owned, failAt) ==
    /\ Available(owned)
    /\ Return(Call("write_record", owned, key(stabilize(record)), "", "", <<record>>),
              write_record_f(TxnView(owned), record, failAt))

create_record_if_missing(k, owned, failAt) ==
    /\ Available(owned)
    /\ LET call == Call("create_record_if_missing", owned, k, "", "", <<>>)
       IN IF ~newable
          THEN Refuse(call)
          ELSE Return(call, create_record_if_missing_f(TxnView(owned), k, failAt))

\* read_or_create_record without the newable test.
read_or_create_record_unguarded(k, owned, failAt) ==
    /\ Available(owned)
    /\ Return(Call("read_or_create_record", owned, k, "", "", <<>>),
              read_or_create_record_f(TxnView(owned), k, failAt))

read_or_create_record(k, owned, failAt) ==
    /\ Available(owned)
    /\ LET call == Call("read_or_create_record", owned, k, "", "", <<>>)
       IN IF ~newable
          THEN Refuse(call)
          ELSE Return(call, read_or_create_record_f(TxnView(owned), k, failAt))

modify_if_exists(k, m, owned, failAt) ==
    /\ Available(owned)
    /\ Return(Call("modify_if_exists", owned, k, m, "", <<>>),
              modify_if_exists_f(TxnView(owned), k, m, failAt))

\* modify without the newable test.
modify_unguarded(k, m, owned, failAt) ==
    /\ Available(owned)
    /\ Return(Call("modify", owned, k, m, "", <<>>),
              modify_f(TxnView(owned), k, m, failAt))

modify(k, m, owned, failAt) ==
    /\ Available(owned)
    /\ LET call == Call("modify", owned, k, m, "", <<>>)
       IN IF ~newable
          THEN Refuse(call)
          ELSE Return(call, modify_f(TxnView(owned), k, m, failAt))

filter_modify(p, m, owned, failAt) ==
    /\ Available(owned)
    /\ Return(Call("filter_modify", owned, 0, m, p, <<>>),
              filter_modify_f(TxnView(owned), p, m, failAt))

has_record(k, owned) ==
    /\ ReadAvailable(owned)
    /\ ReturnRead(Call("has_record", owned, k, "", "", <<>>),
                  has_record_f(ReadView(owned), k))

read_record(k, owned) ==
    /\ ReadAvailable(owned)
    /\ ReturnRead(Call("read_record", owned, k, "", "", <<>>),
                  read_record_f(ReadView(owned), k))

filter_records(p, owned) ==
    /\ ReadAvailable(owned)
    /\ ReturnRead(Call("filter_records", owned, 0, "", p, <<>>),
                  filter_records_f(ReadView(owned), p))

\* ------------------------------------------------------------- the caller
TxnStep(op) ==
    [op |-> op, owned |-> FALSE, key |-> 0, m |-> "", p |-> "", rec |-> <<>>,
     present |-> FALSE, res |-> Ok, flag |-> FALSE, out |-> <<>>, calls |-> 0,
     visited |-> <<>>, opened |-> 0, commits |-> 0, staged |-> 0]

\* The entries a transaction has changed or added since it was opened.
Staged(txn) == {kb \in DOMAIN txn.view : get(txn.base, kb) # get(txn.view, kb)}

\* The caller opens a write transaction to pass to the calls that follow.
get_write_txn ==
    /\ ~wtxn.open
    /\ wtxn' = [open |-> TRUE, base |-> committed, view |-> committed]
    /\ last' = [TxnStep("get_write_txn") EXCEPT !.opened = 1]
    /\ UNCHANGED <<committed, newable, clock, rtxn, thr>>

\* The caller commits its transaction.
commit ==
    /\ wtxn.open
    /\ committed' = wtxn.view
    /\ wtxn' = NoTxn
    /\ last' = [TxnStep("commit") EXCEPT !.commits = 1,
                                         !.staged = Cardinality(Staged(wtxn))]
    /\ UNCHANGED <<newable, clock, rtxn, thr>>

\* The caller drops its transaction without committing.
drop ==
    /\ wtxn.open
    /\ wtxn' = NoTxn
    /\ last' = [TxnStep("drop") EXCEPT !.staged = Cardinality(Staged(wtxn))]
    /\ UNCHANGED <<committed, newable, clock, rtxn, thr>>

\* --------------------------------------------- threads calling with wtxn = None
ThreadOps == {"modify", "modify_if_exists", "read_or_create_record"}

\* The engine has one writer at a time: get_write_txn blocks while another
\* thread holds a write transaction.
WriterFree == \A u \in Threads : thr[u].pc # "locked"

\* OpenedView giving the thread the table as it was when the call was made.
OpenedViewAtCall(t) == thr[t].snap

\* What the write transaction the call opens sees: the table as committed
\* when get_write_txn returns.
OpenedView(t) == committed

\* The closure of the thread's operation, run in the thread's transaction.
ThreadClosure(t) ==
    CASE thr[t].op = "modify" -> modify_f(thr[t].view, thr[t].key, "retitle", 0)
      [] thr[t].op = "modify_if_exists" ->
            modify_if_exists_f(thr[t].view, thr[t].key, "retitle", 0)
      [] OTHER -> read_or_create_record_f(thr[t].view, thr[t].key, 0)

\* Thread t calls op(k, .., None): past the newable test, up to get_write_txn.
enter(t, op, k) ==
    /\ thr[t].pc = "idle"
    /\ op = "modify_if_exists" \/ newable
    /\ thr' = [thr EXCEPT ![t] = [Idle EXCEPT !.pc = "waiting", !.op = op,
                                              !.key = k, !.snap = committed]]
    /\ UNCHANGED <<committed, wtxn, newable, clock, last, rtxn>>

\* get_write_txn returns to thread t.
begin(t) ==
    /\ thr[t].pc = "waiting"
    /\ WriterFree
    /\ ~wtxn.open
    /\ thr' = [thr EXCEPT ![t].pc = "locked", ![t].view = OpenedView(t),
                          ![t].snap = EmptyTable]
    /\ UNCHANGED <<committed, wtxn, newable, clock, last, rtxn>>

\* `let result = f(&mut txn); txn.commit()?; result` in thread t.
finish(t) ==
    /\ thr[t].pc = "locked"
    /\ LET o == ThreadClosure(t)
       IN /\ committed' = o.view
          /\ thr' = [thr EXCEPT ![t] =
                        [Idle EXCEPT !.pc = "done", !.op = thr[t].op,
                                     !.key = thr[t].key,
                                     !.seen = get(thr[t].view, KeyToBytes(thr[t].key)),
                                     !.out = o.out, !.res = o.res, !.flag = o.flag]]
    /\ UNCHANGED <<wtxn, newable, clock, last, rtxn>>

\* The caller opens a read transaction to pass to the reads that follow: a
\* snapshot of the committed table.
get_read_txn ==
    /\ ~rtxn.open
    /\ rtxn' = [open |-> TRUE, view |-> committed]
    /\ last' = [TxnStep("get_read_txn") EXCEPT !.opened = 1]
    /\ UNCHANGED <<committed, wtxn, newable, clock, thr>>

\* The caller drops its read transaction.
drop_read_txn ==
    /\ rtxn.open
    /\ rtxn' = NoRead
    /\ last' = TxnStep("drop_read_txn")
    /\ UNCHANGED <<committed, wtxn, newable, clock, thr>>

\* A writer outside this layer (another schema version, a damaged page) leaves
\* under k a value that from_bytes rejects.
foreign_put(k) ==
    /\ ~wtxn.open
    /\ get(committed, KeyToBytes(k)) # <<Malformed>>
    /\ committed' = put(committed, KeyToBytes(k), Malformed)
    /\ last' = [TxnStep("foreign_put") EXCEPT !.key = k]
    /\ UNCHANGED <<wtxn, newable, clock, rtxn, thr>>

\* ------------------------------------------------------------- specification
\* A record a caller hands to write_record: n is its derived field as the
\* caller left it, right or stale.
Input(k, title, n) ==
    [dtag |-> k, title |-> title, last_edit_time |-> clock, event_public_len |-> n]

Init ==
    /\ committed = EmptyTable
    /\ wtxn = NoTxn
    /\ newable \in BOOLEAN
    /\ clock = 0
    /\ last = TxnStep("init")
    /\ rtxn = NoRead
    /\ thr = [t \in Threads |-> Idle]

Next ==
    \/ \E k \in Keys, title \in Titles, n \in 0..1, owned \in BOOLEAN, failAt \in 0..1 :
            write_record(Input(k, title, n), owned, failAt)
    \/ \E k \in Keys, owned \in BOOLEAN, failAt \in 0..1 :
            create_record_if_missing(k, owned, failAt)
    \/ \E k \in Keys, owned \in BOOLEAN, failAt \in 0..1 :
            read_or_create_record(k, owned, failAt)
    \/ \E k \in Keys, m \in Muts, owned \in BOOLEAN, failAt \in 0..1 :
            modify_if_exists(k, m, owned, failAt)
    \/ \E k \in Keys, m \in Muts, owned \in BOOLEAN, failAt \in 0..1 :
            modify(k, m, owned, failAt)
    \/ \E p \in Preds, m \in Muts, owned \in BOOLEAN, failAt \in 0..MaxKey :
            filter_modify(p, m, owned, failAt)
    \/ get_write_txn
    \/ commit
    \/ drop
    \/ \E k \in Keys : foreign_put(k)

Spec == Init /\ [][Next]_vars

\* ------------------------------------------------- time passing between calls
\* Unixtime::now() has moved on by the time of the next call.
tick ==
    /\ clock < MaxTime
    /\ clock' = clock + 1
    /\ UNCHANGED <<committed, wtxn, newable, last, rtxn, thr>>

\* A newable table.
InitNewable == Init /\ newable

\* create_record_if_missing called again and again while the clock advances:
\* every record in the table was created by an earlier call.
NextClock ==
    \/ \E k \in Keys, owned \in BOOLEAN, failAt \in 0..1 :
            create_record_if_missing(k, owned, failAt)
    \/ tick
    \/ get_write_txn
    \/ commit
    \/ drop

SpecClock == InitNewable /\ [][NextClock]_vars

\* read_or_create_record called again and again while the clock advances.
NextReadOrCreate ==
    \/ \E k \in Keys, owned \in BOOLEAN, failAt \in 0..1 :
            read_or_create_record(k, owned, failAt)
    \/ tick
    \/ get_write_txn
    \/ commit
    \/ drop

SpecReadOrCreate == InitNewable /\ [][NextReadOrCreate]_vars

\* The six mutating operations and the caller's transaction steps, from the
\* empty table, with no writer outside this layer.
NextClean ==
    \/ \E k \in Keys, title \in Titles, n \in 0..1, owned \in BOOLEAN, failAt \in 0..1 :
            write_record(Input(k, title, n), owned, failAt)
    \/ \E k \in Keys, owned \in BOOLEAN, failAt \in 0..1 :
            create_record_if_missing(k, owned, failAt)
    \/ \E k \in Keys, owned \in BOOLEAN, failAt \in 0..1 :
            read_or_create_record(k, owned, failAt)
    \/ \E k \in Keys, m \in Muts, owned \in BOOLEAN, failAt \in 0..1 :
            modify_if_exists(k, m, owned, failAt)
    \/ \E k \in Keys, m \in Muts, owned \in BOOLEAN, failAt \in 0..1 :
            modify(k, m, owned, failAt)
    \/ \E p \in Preds, m \in Muts, owned \in BOOLEAN, failAt \in 0..MaxKey :
            filter_modify(p, m, owned, failAt)
    \/ get_write_txn
    \/ commit
    \/ drop

SpecClean == Init /\ [][NextClean]_vars

\* The three reads, with and without a supplied read transaction, over tables
\* built by auto-committed write_record calls and by foreign writers.
NextRead ==
    \/ \E k \in Keys, title \in Titles :
            write_record(Input(k, title, TitleLen(title)), TRUE, 0)
    \/ \E k \in Keys : foreign_put(k)
    \/ \E k \in Keys, owned \in BOOLEAN : has_record(k, owned)
    \/ \E k \in Keys, owned \in BOOLEAN : read_record(k, owned)
    \/ \E p \in Preds, owned \in BOOLEAN : filter_records(p, owned)
    \/ get_read_txn
    \/ drop_read_txn

SpecRead == InitNewable /\ [][NextRead]_vars

\* Reads through a read transaction the caller holds open, and reads that
\* open their own, while writes are auto-committed or staged in a write
\* transaction that is then committed or dropped.
NextSnap ==
    \/ \E k \in Keys, owned \in BOOLEAN :
            write_record(Input(k, "x", 1), owned, 0)
    \/ \E k \in Keys, owned \in BOOLEAN : has_record(k, owned)
    \/ \E k \in Keys, owned \in BOOLEAN : read_record(k, owned)
    \/ \E owned \in BOOLEAN : filter_records("all", owned)
    \/ get_read_txn
    \/ drop_read_txn
    \/ get_write_txn
    \/ commit
    \/ drop

SpecSnap == InitNewable /\ [][NextSnap]_vars

\* Calls whose mutation function changes the field the key is derived from.
NextRekey ==
    \/ \E k \in Keys, owned \in BOOLEAN :
            create_record_if_missing(k, owned, 0)
    \/ \E k \in Keys, owned \in BOOLEAN :
            modify_if_exists(k, "rekey", owned, 0)
    \/ \E k \in Keys, owned \in BOOLEAN :
            modify(k, "rekey", owned, 0)
    \/ \E p \in Preds, owned \in BOOLEAN :
            filter_modify(p, "rekey", owned, 0)
    \/ get_write_txn
    \/ commit
    \/ drop

SpecRekey == InitNewable /\ [][NextRekey]_vars

\* A table whose Record type is not newable.
InitNotNewable == Init /\ ~newable

\* Every operation of the table, on a table that write_record and foreign
\* writers fill.
NextAll ==
    \/ \E k \in Keys, title \in Titles, owned \in BOOLEAN, failAt \in 0..1 :
            write_record(Input(k, title, TitleLen(title)), owned, failAt)
    \/ \E k \in Keys, owned \in BOOLEAN :
            create_record_if_missing(k, owned, 0)
    \/ \E k \in Keys, owned \in BOOLEAN :
            read_or_create_record(k, owned, 0)
    \/ \E k \in Keys, m \in Muts, owned \in BOOLEAN, failAt \in 0..1 :
            modify_if_exists(k, m, owned, failAt)
    \/ \E k \in Keys, m \in Muts, owned \in BOOLEAN :
            modify(k, m, owned, 0)
    \/ \E p \in Preds, m \in Muts, owned \in BOOLEAN, failAt \in 0..1 :
            filter_modify(p, m, owned, failAt)
    \/ \E k \in Keys : has_record(k, TRUE)
    \/ \E k \in Keys : read_record(k, TRUE)
    \/ \E p \in Preds : filter_records(p, TRUE)
    \/ get_write_txn
    \/ commit
    \/ drop
    \/ \E k \in Keys : foreign_put(k)

SpecNotNewable == InitNotNewable /\ [][NextAll]_vars

\* Every thread makes one call on the same key with no transaction supplied,
\* while the clock advances.
NextConc ==
    \/ \E t \in Threads, op \in ThreadOps : enter(t, op, 1)
    \/ \E t \in Threads : begin(t)
    \/ \E t \in Threads : finish(t)
    \/ tick

SpecConc == InitNewable /\ [][NextConc]_vars

\* ------------------------------------------------------------- properties
Mutating ==
    {"write_record", "create_record_if_missing", "read_or_create_record",
     "modify_if_exists", "modify", "filter_modify"}

\* The view the step's call started from and the view it left, in the
\* transaction the call ran in.
Before == TxnView(last'.owned)
After == IF last'.owned THEN committed' ELSE wtxn'.view

\* What a successful call l promises about the view it leaves.
Effect(l, before, after) ==
    LET kb == KeyToBytes(l.key)
        old == IF kb \in DOMAIN before THEN from_bytes(before[kb]).rec ELSE new(l.key)
    IN CASE l.op = "write_record" ->
                get(after, kb) = <<to_bytes(stabilize(l.rec[1]))>>
         [] l.op = "create_record_if_missing" -> kb \in DOMAIN after
         [] l.op = "read_or_create_record" ->
                kb \in DOMAIN after /\ l.out = <<from_bytes(after[kb]).rec>>
         [] l.op = "modify_if_exists" ->
                l.flag => /\ kb \in DOMAIN before
                          /\ get(after, kb) = <<to_bytes(stabilize(Mutate(l.m, old)))>>
         [] l.op = "modify" ->
                get(after, kb) = <<to_bytes(stabilize(Mutate(l.m, old)))>>
         [] l.op = "filter_modify" ->
                \A e \in DOMAIN before :
                    Accepts(l.p, from_bytes(before[e]).rec) =>
                        get(after, e) =
                            <<to_bytes(stabilize(Mutate(l.m, from_bytes(before[e]).rec)))>>
         [] OTHER -> TRUE

\* C1: a mutating operation called with the caller's write transaction returns
\* with that transaction still open and neither committed nor aborted, whether
\* it succeeds or fails; what it wrote is staged in the transaction, and the
\* committed table changes only when the caller commits.
C1_SuppliedTxnLeftToCaller ==
    [][ /\ (last'.op \in Mutating /\ ~last'.owned) =>
            /\ committed' = committed
            /\ wtxn.open /\ wtxn'.open /\ wtxn'.base = wtxn.base
            /\ last'.opened = 0 /\ last'.commits = 0
            /\ last'.res = Ok => Effect(last', wtxn.view, wtxn'.view)
        /\ (wtxn.open /\ committed' # committed) => last'.op = "commit"
      ]_vars

\* A supplied-transaction call has staged a write the committed table lacks.
C1_Witness ==
    /\ last.op \in Mutating /\ ~last.owned /\ wtxn.open
    /\ wtxn.view # committed

\* C2 (as claimed): an owned-transaction call that returns an error leaves the
\* committed table as it was before the call.
C2_OwnedErrorCommitsNothing ==
    [][ (last'.op \in Mutating /\ last'.owned /\ last'.res \in Errors) =>
            committed' = committed ]_vars

\* C3: whatever calls ran on the caller's transaction, dropping it leaves the
\* committed table as it was when the transaction was opened, and committing
\* it makes the transaction's whole view the committed table in one step.
C3_DropOrCommitTogether ==
    [][ /\ wtxn.open => committed = wtxn.base
        /\ last'.op = "drop" => (committed' = wtxn.base /\ ~wtxn'.open)
        /\ last'.op = "commit" => (committed' = wtxn.view /\ ~wtxn'.open)
      ]_vars

\* A transaction that had staged changes to two entries was dropped.
C3_Witness == last.op = "drop" /\ last.staged >= 2

C5_SuppliedErrorStagesNothing ==
    [][ (last'.op \in Mutating /\ ~last'.owned /\ last'.res \in Errors) =>
            wtxn'.view = wtxn.view ]_vars

\* C6: a successful filter_modify keeps the keys and their order; an entry
\* the predicate accepts holds to_bytes(stabilize(mutation(old record))), any
\* other entry holds the bytes it held; the cursor visits each entry once, in
\* key order, and the mutation runs once per accepted entry.
C6_FilterModifyRewritesMatches ==
    [][ (last'.op = "filter_modify" /\ last'.res = Ok) =>
            /\ DOMAIN After = DOMAIN Before
            /\ iter(After) = iter(Before)
            /\ \A kb \in DOMAIN Before :
                  LET old == from_bytes(Before[kb])
                  IN /\ old.ok
                     /\ After[kb] = IF Accepts(last'.p, old.rec)
                                    THEN to_bytes(stabilize(Mutate(last'.m, old.rec)))
                                    ELSE Before[kb]
            /\ last'.visited = iter(Before)
            /\ last'.calls =
                  Cardinality({kb \in DOMAIN Before :
                                  Accepts(last'.p, from_bytes(Before[kb]).rec)})
      ]_vars

\* A successful filter_modify over several entries accepted some, not all.
C6_Witness ==
    /\ last.op = "filter_modify" /\ last.res = Ok
    /\ last.calls >= 1 /\ Len(last.visited) > last.calls

\* C7: modify_if_exists on an absent key returns false without calling the
\* mutation and leaves the table as it was; on a present key a successful call
\* returns true and replaces that key's value by
\* to_bytes(stabilize(mutation(old record))), every other entry unchanged.
C7_ModifyIfExists ==
    [][ last'.op = "modify_if_exists" =>
            LET kb == KeyToBytes(last'.key)
            IN IF kb \notin DOMAIN Before
               THEN /\ last'.res = Ok /\ ~last'.flag /\ last'.calls = 0
                    /\ After = Before
                    /\ UNCHANGED <<committed, wtxn>>
               ELSE last'.res = Ok =>
                    /\ last'.flag
                    /\ After = [Before EXCEPT ![kb] =
                          to_bytes(stabilize(Mutate(last'.m, from_bytes(Before[kb]).rec)))]
      ]_vars

\* modify_if_exists returned false for an absent key of a table with entries.
C7_Witness ==
    /\ last.op = "modify_if_exists" /\ ~last.present
    /\ last.res = Ok /\ ~last.flag
    /\ len(IF last.owned THEN committed ELSE wtxn.view) >= 1

\* C8 (as claimed): after a successful modify on an absent key the value stored
\* is the mutation applied to stabilize(default(key)).
C8_MutationOfStabilizedDefault ==
    [][ (last'.op = "modify" /\ last'.res = Ok
            /\ KeyToBytes(last'.key) \notin DOMAIN Before) =>
            get(After, KeyToBytes(last'.key)) =
                <<to_bytes(Mutate(last'.m, stabilize(new(last'.key))))>>
      ]_vars

\* C8 (amended): a successful modify on an absent key adds one entry, under
\* key, holding to_bytes(stabilize(mutation(default(key)))), every other entry
\* unchanged; after any successful modify the table has an entry for key.
C8_ModifyCreatesThenStabilizes ==
    [][ (last'.op = "modify" /\ last'.res = Ok) =>
            LET kb == KeyToBytes(last'.key)
            IN /\ kb \in DOMAIN After
               /\ kb \notin DOMAIN Before =>
                    /\ After = put(Before, kb,
                                   to_bytes(stabilize(Mutate(last'.m, new(last'.key)))))
                    /\ len(After) = len(Before) + 1
                    /\ \A e \in DOMAIN Before : After[e] = Before[e]
                    /\ last'.calls = 1
      ]_vars

\* A successful modify created the entry of an absent key beside another one.
C8_Witness ==
    /\ last.op = "modify" /\ last.res = Ok /\ ~last.present /\ newable
    /\ len(IF last.owned THEN committed ELSE wtxn.view) >= 2

\* C9: modify on a table that is not newable, for an absent key, fails with
\* RecordIsNotNewable, never calls the mutation and writes nothing.
C9_ModifyNotNewable ==
    [][ (last'.op = "modify" /\ ~newable
            /\ KeyToBytes(last'.key) \notin DOMAIN Before) =>
            /\ last'.res = RecordIsNotNewable
            /\ last'.calls = 0
            /\ UNCHANGED <<committed, wtxn>>
      ]_vars

\* modify was refused for an absent key, with a transaction supplied.
C9_Witness ==
    /\ last.op = "modify" /\ ~newable /\ ~last.present
    /\ last.res = RecordIsNotNewable /\ ~last.owned /\ wtxn.open

\* C10 (as claimed): create_record_if_missing on a present key returns success
\* whatever the table type.
C10_PresentKeyAlwaysOk ==
    (last.op = "create_record_if_missing" /\ last.present) => last.res = Ok

\* C10 (amended): create_record_if_missing on a present key leaves every entry
\* as it was; it returns success on a newable table and RecordIsNotNewable on
\* a table that is not newable.
C10_PresentKeyNoOp ==
    [][ (last'.op = "create_record_if_missing"
            /\ KeyToBytes(last'.key) \in DOMAIN Before) =>
            /\ After = Before
            /\ UNCHANGED <<committed, wtxn>>
            /\ last'.res = IF newable THEN Ok ELSE RecordIsNotNewable
      ]_vars

\* create_record_if_missing returned Ok for a key that was present.
C10_Witness ==
    /\ last.op = "create_record_if_missing" /\ last.present
    /\ newable /\ last.res = Ok


\* C11: create_record_if_missing is idempotent.  A call that follows an Ok
\* call for the same key through the same transaction argument returns Ok and
\* leaves the table, and the entry under the key, exactly as the first call
\* left them, also when the clock has advanced between the calls so that the
\* default record built now differs from the one stored.
C11_CreateIfMissingIdempotent ==
    [][(/\ last.op = "create_record_if_missing" /\ last.res = Ok
        /\ last'.op = "create_record_if_missing"
        /\ last'.key = last.key /\ last'.owned = last.owned
        /\ clock' = clock)
       => /\ last'.res = Ok
          /\ last'.present
          /\ After = Before
          /\ UNCHANGED <<committed, wtxn>>]_vars

\* create_record_if_missing returned Ok for a key an earlier call created, at a
\* time when the default record would carry a later last_edit_time.
C11_Witness ==
    /\ last.op = "create_record_if_missing" /\ last.res = Ok /\ last.present
    /\ \E kb \in DOMAIN committed :
          /\ kb = KeyToBytes(last.key)
          /\ from_bytes(committed[kb]).rec.last_edit_time < clock
          /\ to_bytes(stabilize(new(last.key))) # committed[kb]

\* C12: a read_or_create_record call on a newable table that returns Ok either
\* found the key, returned the decoded stored value and wrote nothing, or did
\* not find it, stored stabilize(default(key)) under the key and returned that
\* record.  Either way the record returned is the one stored under the key
\* when the call returns, and a call that follows an Ok call for the same key
\* returns the same record and writes nothing.
C12_ReadOrCreate ==
    [][(last'.op = "read_or_create_record" /\ clock' = clock)
       => LET kb == KeyToBytes(last'.key)
              default == stabilize(new(last'.key))
          IN /\ last'.res = Ok =>
                  /\ IF last'.present
                     THEN /\ After = Before
                          /\ last'.out = <<from_bytes(Before[kb]).rec>>
                     ELSE /\ After = put(Before, kb, to_bytes(default))
                          /\ last'.out = <<default>>
                  /\ kb \in DOMAIN After
                  /\ from_bytes(After[kb]).ok
                  /\ last'.out = <<from_bytes(After[kb]).rec>>
             /\ last'.res # Ok => After = Before /\ last'.out = <<>>
             /\ (/\ last.op = "read_or_create_record" /\ last.res = Ok
                 /\ last.key = last'.key /\ last.owned = last'.owned)
                => /\ last'.res = Ok
                   /\ last'.out = last.out
                   /\ After = Before]_vars

\* read_or_create_record found the key and returned the stored record, which
\* is older than the default record it would have built.
C12_Witness ==
    /\ last.op = "read_or_create_record" /\ last.res = Ok /\ last.present
    /\ last.out # <<>>
    /\ last.out[1].last_edit_time < clock
    /\ last.out # <<stabilize(new(last.key))>>

\* The view a read step ran on.
ReadBefore == ReadView(last'.owned)

Decodable(view) == \A kb \in DOMAIN view : from_bytes(view[kb]).ok

\* C13: filter_records changes nothing.  When every entry of the table
\* decodes it returns Ok with exactly the records the predicate accepts, each
\* once, in increasing key order; when any entry does not decode, whatever the
\* predicate, it returns the decoding error and no records.
C13_FilterRecords ==
    [][last'.op = "filter_records"
       => LET out == last'.out
              accepted == {r \in {from_bytes(ReadBefore[kb]).rec : kb \in DOMAIN ReadBefore} :
                             Accepts(last'.p, r)}
          IN /\ UNCHANGED <<committed, wtxn, rtxn>>
             /\ IF Decodable(ReadBefore)
                THEN /\ last'.res = Ok
                     /\ {out[i] : i \in 1..Len(out)} = accepted
                     /\ Len(out) = Cardinality(accepted)
                     /\ \A i, j \in 1..Len(out) : i < j => key(out[i]) < key(out[j])
                ELSE /\ last'.res = DecodingFailure
                     /\ out = <<>>]_vars

\* filter_records returned some records of the table and left out others.
C13_Witness ==
    /\ last.op = "filter_records" /\ last.res = Ok /\ last.p = "untitled"
    /\ Len(last.out) >= 1
    /\ Len(last.out) < len(ReadView(last.owned))

\* C16: has_record returns Ok(true) exactly when an entry is stored under the
\* key, decodable or not, and never a decoding error.  read_record returns
\* Ok(None) only when no entry is stored under the key, Ok(Some(record)) with
\* the decoded record when the stored value decodes, and the decoding error
\* when it does not.  Neither changes the table.
C16_HasAndReadRecord ==
    [][last'.op \in {"has_record", "read_record"}
       => LET kb == KeyToBytes(last'.key)
              stored == kb \in DOMAIN ReadBefore
          IN /\ UNCHANGED <<committed, wtxn, rtxn>>
             /\ last'.present = stored
             /\ last'.op = "has_record"
                  => last'.res = Ok /\ last'.flag = stored
             /\ last'.op = "read_record"
                  => IF ~stored
                     THEN last'.res = Ok /\ last'.out = <<>>
                     ELSE IF from_bytes(ReadBefore[kb]).ok
                     THEN /\ last'.res = Ok
                          /\ last'.out = <<from_bytes(ReadBefore[kb]).rec>>
                     ELSE /\ last'.res = DecodingFailure
                          /\ last'.out = <<>>]_vars

\* has_record answered true for a key whose stored value does not decode.
C16_Witness ==
    /\ last.op = "has_record" /\ last.res = Ok /\ last.flag
    /\ get(ReadView(last.owned), KeyToBytes(last.key)) = <<Malformed>>

\* A value that decodes to a stabilized record and is that record's encoding.
StabilizedSerialization(valbytes) ==
    /\ from_bytes(valbytes).ok
    /\ stabilize(from_bytes(valbytes).rec) = from_bytes(valbytes).rec
    /\ to_bytes(from_bytes(valbytes).rec) = valbytes

\* C14: starting from the empty table, after any sequence of write_record,
\* create_record_if_missing, read_or_create_record, modify_if_exists, modify
\* and filter_modify calls, failed ones included, every key has at most one
\* entry and every stored value, committed or staged in the caller's
\* transaction, is the serialization of a stabilized record.
C14_StoredValuesStabilized ==
    /\ \A kb \in DOMAIN committed : StabilizedSerialization(committed[kb])
    /\ \A kb \in DOMAIN wtxn.view : StabilizedSerialization(wtxn.view[kb])
    /\ len(committed) = Len(iter(committed))
    /\ \A i, j \in 1..Len(iter(committed)) :
          i # j => iter(committed)[i] # iter(committed)[j]

\* write_record stored a record whose derived field the caller had left stale.
C14_Witness ==
    /\ last.op = "write_record" /\ last.res = Ok /\ last.owned
    /\ last.rec[1] # stabilize(last.rec[1])
    /\ KeyToBytes(last.key) \in DOMAIN committed

\* C15: write_record is an upsert.  After an Ok write_record(r) a read_record
\* of key(stabilize(r)) in the same view returns stabilize(r); the entry count
\* is one more than before when the key was absent and the same when it was
\* present; no entry under another key is changed.
C15_WriteRecordUpsert ==
    [][(last'.op = "write_record" /\ last'.res = Ok)
       => LET stable == stabilize(last'.rec[1])
              kb == KeyToBytes(key(stable))
              read == read_record_f(After, key(stable))
          IN /\ last'.key = key(stable)
             /\ read.res = Ok /\ read.out = <<stable>>
             /\ len(After) = IF last'.present THEN len(Before) ELSE len(Before) + 1
             /\ DOMAIN After = DOMAIN Before \cup {kb}
             /\ \A other \in DOMAIN Before : other # kb => After[other] = Before[other]]_vars

\* write_record replaced the record stored under a key, next to an entry
\* under another key.
C15_Witness ==
    /\ last.op = "write_record" /\ last.res = Ok /\ last.owned /\ last.present
    /\ len(committed) >= 2
    /\ last.rec[1] # stabilize(last.rec[1])
    /\ read_record_f(committed, last.key).out = <<stabilize(last.rec[1])>>

Reads == {"has_record", "read_record", "filter_records"}

\* What a read of the given description returns on a view.
Answer(l, view) ==
    CASE l.op = "has_record" -> has_record_f(view, l.key)
      [] l.op = "read_record" -> read_record_f(view, l.key)
      [] OTHER -> filter_records_f(view, l.p)

Same(l, o) == l.res = o.res /\ l.flag = o.flag /\ l.out = o.out

\* C17: while the caller's read transaction stays open its snapshot is the
\* same whatever is auto-committed, staged or committed meanwhile, and every
\* read given that transaction answers from that snapshot; a read that opens
\* its own transaction answers from the committed table, never from what a
\* write transaction has staged and not committed.
C17_ReadsSeeOneSnapshot ==
    [][/\ (rtxn.open /\ rtxn'.open) => rtxn'.view = rtxn.view
       /\ (last'.op \in Reads /\ ~last'.owned)
            => rtxn.open /\ Same(last', Answer(last', rtxn.view))
       /\ (last'.op \in Reads /\ last'.owned)
            => Same(last', Answer(last', committed))]_vars

\* A read through the caller's read transaction found no record under a key
\* that has one in the committed table, while a write transaction holding yet
\* another record is open.
C17_Witness ==
    /\ last.op = "read_record" /\ ~last.owned /\ last.res = Ok /\ last.out = <<>>
    /\ rtxn.open
    /\ read_record_f(committed, last.key).out # <<>>
    /\ wtxn.open /\ wtxn.view # committed

\* The threads whose call has returned Ok having applied its mutation.
Applied ==
    {t \in Threads : /\ thr[t].pc = "done" /\ thr[t].res = Ok
                     /\ \/ thr[t].op = "modify"
                        \/ thr[t].op = "modify_if_exists" /\ thr[t].flag}

\* The threads whose read_or_create_record has returned Ok.
Readers ==
    {t \in Threads : /\ thr[t].pc = "done" /\ thr[t].res = Ok
                     /\ thr[t].op = "read_or_create_record"}

\* C18: calls made by several threads on one key with no transaction supplied
\* lose no update.  Each call reads the value committed by the call before it
\* and commits its own mutation of that value, so the committed record carries
\* every mutation applied so far (retitle flips the title: the title is "x"
\* exactly after an odd number of them); and the read_or_create_record calls
\* create the record at most once, each returns the record stored when it
\* returns, and with no mutation in between all return one and the same
\* record.
C18_NoLostUpdate ==
    /\ [][\A t \in Threads :
            (thr[t].pc = "locked" /\ thr'[t].pc = "done")
            => LET k == thr[t].key
                   kb == KeyToBytes(k)
                   was == get(committed, kb)
                   old == IF was = <<>> THEN new(k) ELSE from_bytes(was[1]).rec
                   mutated == to_bytes(stabilize(Mutate("retitle", old)))
               IN /\ thr'[t].res = Ok
                  /\ thr'[t].seen = was
                  /\ thr[t].op = "read_or_create_record"
                       => thr'[t].out = <<from_bytes(committed'[kb]).rec>>
                  /\ committed' =
                       CASE thr[t].op = "modify" -> put(committed, kb, mutated)
                         [] thr[t].op = "modify_if_exists" /\ was # <<>> ->
                                put(committed, kb, mutated)
                         [] thr[t].op = "read_or_create_record" /\ was = <<>> ->
                                put(committed, kb, to_bytes(stabilize(new(k))))
                         [] OTHER -> committed]_vars
    /\ [](\A kb \in DOMAIN committed :
            from_bytes(committed[kb]).rec.title
                = IF Cardinality(Applied) % 2 = 1 THEN "x" ELSE "")
    /\ [](\A t, u \in Readers :
            /\ Applied = {} => thr[t].out = thr[u].out
            /\ (thr[t].seen = <<>> /\ thr[u].seen = <<>>) => t = u)

\* Every thread has returned and at least two of them have modified the
\* record, one after the other.
C18_Witness ==
    /\ \A t \in Threads : thr[t].pc = "done"
    /\ Cardinality(Applied) >= 2
    /\ \E t \in Applied : thr[t].seen # <<>>
\* C19: in every reachable table, committed or staged, each entry is stored
\* under the encoding of the key of the record its value decodes to, also
\* after modify, modify_if_exists and filter_modify calls whose mutation
\* changes the field the key is derived from.
C19_StoredUnderOwnKey ==
    /\ \A kb \in DOMAIN committed :
          from_bytes(committed[kb]).ok
            => KeyToBytes(key(from_bytes(committed[kb]).rec)) = kb
    /\ \A kb \in DOMAIN wtxn.view :
          from_bytes(wtxn.view[kb]).ok
            => KeyToBytes(key(from_bytes(wtxn.view[kb]).rec)) = kb

NeedsDefault == {"create_record_if_missing", "read_or_create_record", "modify"}

\* C20: on a table whose Record type is not newable, every call of
\* create_record_if_missing, read_or_create_record and modify, for a present
\* key as for an absent one, returns RecordIsNotNewable without opening or
\* committing a transaction and leaves the committed table and the caller's
\* transaction as they were; write_record, has_record, read_record,
\* filter_records, modify_if_exists and filter_modify never return
\* RecordIsNotNewable.
C20_NotNewable ==
    [][/\ last'.op \in NeedsDefault
            => /\ last'.res = RecordIsNotNewable
               /\ last'.opened = 0 /\ last'.commits = 0
               /\ last'.out = <<>>
               /\ UNCHANGED <<committed, wtxn, rtxn>>
       /\ last'.op \in (Mutating \cup Reads) \ NeedsDefault
            => last'.res # RecordIsNotNewable]_vars

\* read_or_create_record refused a key that has a record in the table.
C20_Witness ==
    /\ ~newable
    /\ last.op = "read_or_create_record" /\ last.res = RecordIsNotNewable
    /\ last.present
    /\ from_bytes(TxnView(last.owned)[KeyToBytes(last.key)]).ok

====
